---- MODULE Spec2Model ----
(***************************************************************************)
(* A model of RedisPool (src/index.js, lines 1-193): one generic-pool      *)
(* resource pool per Redis database, created lazily by acquire, with the   *)
(* connection factory of makePool, release with UNWATCH, and the periodic  *)
(* status event.                                                           *)
(*                                                                         *)
(* JavaScript runs every handler to completion, together with the promise  *)
(* continuations it schedules, before the next I/O event or timer is       *)
(* served.  Each action below is one such run: the synchronous part of an  *)
(* API call, or one event of a redis client, with everything it triggers   *)
(* in the pool (resource registration, dispatch to waiting callers and the *)
(* continuation of their acquire).                                         *)
(*                                                                         *)
(* The resource pool itself (createPool of generic-pool) is a collaborator *)
(* whose code is not part of the repository; it is modelled by its         *)
(* contract with the settings makePool passes to it.                       *)
(***************************************************************************)
EXTENDS Integers, Sequences, FiniteSets, TLC

(* ------------------------------ bounds -------------------------------- *)

\* options.max of the modelled manager (DEFAULTS.max is 50)
OptMax == 1
\* number of independent callers of acquire/release
NumCallers == 2
\* commands that may already be unanswered on a connection when its
\* borrower sends one more
MaxCmds == 1
\* options.slowPool.elapsedThreshold of the modelled manager, in clock ticks
\* (DEFAULTS.slowPool.elapsedThreshold is 25)
OptElapsedThreshold == 2
\* options.acquireTimeoutMillis a manager may be constructed with, in clock
\* ticks
OptAcquireTimeout == 1
\* the clock (Date.now()) runs from 0 to MaxTime
MaxTime == 3
\* connections of one database that callers destroy through the pool
MaxDestroys == 1

(* --------------------------- database ids ----------------------------- *)

\* acquire and release take a String|Number database name
Num(n) == [type |-> "number", n |-> n, s |-> ""]
Str(s) == [type |-> "string", n |-> 0, s |-> s]

\* the database names callers use: a number and a string
Databases == {Num(0), Str("2")}

Digits == <<"0", "1", "2", "3", "4", "5", "6", "7", "8", "9">>

\* this.pools[database]: a JavaScript property key is the string form
\* faulty variant: every database name reads the same property
PropertyKeyFirst(database) == Digits[1]

PropertyKey(database) ==
    IF database.type = "number" THEN Digits[database.n + 1] ELSE database.s

\* Object.entries order of the keys in use (integer keys ascending)
KeyOrder == <<"0", "2">>

Keys == {KeyOrder[i] : i \in 1..Len(KeyOrder)}

Callers == 1..NumCallers

Min(a, b) == IF a < b THEN a ELSE b

(* ------------------------------- state -------------------------------- *)

VARIABLES
    options,    \* this.options (the part the model reads)
    pools,      \* this.pools: property key -> pool
    made,       \* per key, how many times makePool ran
    clients,    \* per key, the redis clients createClient returned, in order
    callers,    \* the callers of acquire/release
    tick,       \* TRUE iff the last step was the status timer's callback
    status,     \* the status events emitted by the last step, in order
    now,        \* Date.now()
    log,        \* the records the last step passed to logger.info, in order
    registered, \* the commands added to the redis library (process-wide)
    destroyed   \* TRUE once a caller has asked the manager to shut down

vars == <<options, pools, made, clients, callers, tick, status,
          now, log, registered, destroyed>>

\* DEFAULTS.name
OptName == "default"

\* A resource is named <<key, i>>: the i-th client created for `key`, or
\* the Error its creation resolved with.
Client(r) == clients[r[1]][r[2]]

\* every resource created so far
Created == UNION {{<<k, i>> : i \in 1..Len(clients[k])} : k \in Keys}

(* ------------------------- the redis client --------------------------- *)

\* client.select(database, ...): the database the connection ends on
\* faulty variant: the connection stays on the server's default database
SelectedDbDefault(database) == "0"

SelectedDb(database) == PropertyKey(database)

\* redis.createClient(...) inside factory.create: a new client object
\* (cl: the clients created for the key so far)
NewClientId(cl) == Len(cl) + 1

\* a client right after createClient, created by the pool numbered `pool`
NewClient(pool, database) ==
    [ pool      |-> pool,
      database  |-> database,
      phase     |-> "connecting",
      settled   |-> FALSE,
      resolved  |-> "none",
      tagged    |-> FALSE,
      resolveCalls |-> 0,
      destroy   |-> "none",
      ended     |-> FALSE,
      connected |-> FALSE,
      selected  |-> "",
      q         |-> <<>>,
      ws        |-> "none" ]

(* --------------------------- the pool --------------------------------- *)

\* faulty variant: the pool is configured one connection above options.max
NewPoolOversized(id, database) ==
    [ id        |-> id,
      database  |-> database,
      max       |-> OptMax + 1,
      waiting   |-> <<>>,
      available |-> <<>>,
      all       |-> {},
      creating  |-> {},
      loans     |-> {} ]

\* config of makePool: only max is an option createPool knows
NewPool(id, database) ==
    [ id        |-> id,
      database  |-> database,
      max       |-> OptMax,
      waiting   |-> <<>>,
      available |-> <<>>,
      all       |-> {},
      creating  |-> {},
      loans     |-> {} ]

PoolSize(p) == Cardinality(p.all) + Cardinality(p.creating)
PoolAvailable(p) == Len(p.available)
PoolPending(p) == Len(p.waiting)
SpareCapacity(p) == p.max - PoolSize(p)

\* In the operators below w = [key, p, cl, ca]: the pool p of `key`, the
\* clients cl created for `key`, and the callers ca.

\* pool._createResource: factory.create() runs up to createClient
CreateResource(w) ==
    LET id == NewClientId(w.cl)
        n  == IF id > Len(w.cl) THEN id ELSE Len(w.cl)
        c  == NewClient(w.p.id, w.p.database)
    IN  [ w EXCEPT
            !.cl = [i \in 1..n |-> IF i = id THEN c ELSE w.cl[i]],
            !.p.creating = @ \cup {id} ]

RECURSIVE CreateResources(_, _)
CreateResources(w, n) ==
    IF n <= 0 THEN w ELSE CreateResources(CreateResource(w), n - 1)

\* the continuation of `await pool.acquire()` in RedisPool.acquire
Resume(ca, c, r) ==
    [ca EXCEPT ![c].pc = "holding", ![c].res = r, ![c].start = 0]

\* pool._dispatchResource: the first idle resource goes to the first waiter
\* faulty variant: the dispatched resource stays in the idle list
DispatchResourceKept(w) ==
    LET i == Head(w.p.available)
        c == Head(w.p.waiting)
    IN  [ w EXCEPT
            !.p.waiting = Tail(@),
            !.p.loans = @ \cup {i},
            !.ca = Resume(@, c, <<w.key, i>>) ]

\* faulty variant: the resource goes to the waiter that arrived last
DispatchResourceLast(w) ==
    LET i == Head(w.p.available)
        n == Len(w.p.waiting)
        c == w.p.waiting[n]
    IN  [ w EXCEPT
            !.p.available = Tail(@),
            !.p.waiting = SubSeq(@, 1, n - 1),
            !.p.loans = @ \cup {i},
            !.ca = Resume(@, c, <<w.key, i>>) ]

DispatchResource(w) ==
    LET i == Head(w.p.available)
        c == Head(w.p.waiting)
    IN  [ w EXCEPT
            !.p.available = Tail(@),
            !.p.waiting = Tail(@),
            !.p.loans = @ \cup {i},
            !.ca = Resume(@, c, <<w.key, i>>) ]

RECURSIVE DispatchResources(_, _)
DispatchResources(w, n) ==
    IF n <= 0 THEN w ELSE DispatchResources(DispatchResource(w), n - 1)

\* pool._dispense
Dispense(w) ==
    LET numWaiting == Len(w.p.waiting)
        shortfall  == numWaiting
                      - (Len(w.p.available) + Cardinality(w.p.creating))
        w1 == CreateResources(w, Min(SpareCapacity(w.p), shortfall))
    IN  IF numWaiting < 1 THEN w
        ELSE DispatchResources(w1, Min(Len(w1.p.available), numWaiting))

\* the create promise resolved with resource i: the pool registers it as idle
AddResource(w, i) ==
    [ w EXCEPT
        !.p.creating = @ \ {i},
        !.p.all = @ \cup {i},
        !.p.available = Append(@, i) ]

\* pool.release(resource) for a resource the pool has on loan
ReturnResource(w, i) ==
    [ w EXCEPT
        !.p.loans = @ \ {i},
        !.p.available = Append(@, i) ]

(* --------------------------- the registry ----------------------------- *)

\* `if (!pool)` of RedisPool.acquire
\* faulty variant: the lookup never finds the pool
HasPoolNever(ps, database) == FALSE

HasPool(ps, database) == PropertyKey(database) \in DOMAIN ps

\* `this.pools[database] = ...`
\* faulty variant: the new pool is not stored
RegisterNothing(ps, database, p) == ps

\* faulty variant: the registry is replaced by one holding the new pool only
RegisterAlone(ps, database, p) ==
    [k \in {PropertyKey(database)} |-> p]

Register(ps, database, p) ==
    [k \in DOMAIN ps \cup {PropertyKey(database)} |->
        IF k = PropertyKey(database) THEN p ELSE ps[k]]

\* the pool that created resource r is (still) the registered one
OwnerRegistered(r) ==
    /\ r[1] \in DOMAIN pools
    /\ pools[r[1]].id = Client(r).pool

\* the effect of one run on key's pool, its clients and the callers
Commit(w) ==
    /\ clients' = [clients EXCEPT ![w.key] = w.cl]
    /\ callers' = w.ca

(* ------------------------------ Init ---------------------------------- *)

IdleCaller ==
    [pc |-> "idle", db |-> Num(0), res |-> <<>>, watched |-> FALSE, start |-> 0]

\* the options a manager is constructed with, as far as the model reads
\* them (acquireTimeoutMillis 0: not given)
Options(unwatch, slowPool, acquireTimeout, commands) ==
    [ unwatchOnRelease     |-> unwatch,
      slowPool             |-> slowPool,
      acquireTimeoutMillis |-> acquireTimeout,
      commands             |-> commands ]

\* DEFAULTS.slowPool, with the threshold of the modelled manager
QuietSlowPool == [log |-> FALSE, elapsedThreshold |-> OptElapsedThreshold]

\* the custom command names managers are constructed with
Commands == {"fakeCommand", "otherCommand"}

\* _addCommands: redis.add_command(name) for every name of options.commands
\* adds the method to the library's client prototype (reg: the names added
\* so far in this process)
AddCommands(reg, opts) == reg \cup opts.commands

\* new RedisPool(opts) in a process where the commands `before` were added
\* by managers constructed earlier
Construct(opts, before) ==
    /\ options = opts
    /\ pools = [k \in {} |-> 0]
    /\ made = [k \in Keys |-> 0]
    /\ clients = [k \in Keys |-> <<>>]
    /\ callers = [c \in Callers |-> IdleCaller]
    /\ tick = FALSE
    /\ status = <<>>
    /\ now = 0
    /\ log = <<>>
    /\ registered = AddCommands(before, opts)
    /\ destroyed = FALSE

Init == \E u \in BOOLEAN : Construct(Options(u, QuietSlowPool, 0, {}), {})

NoStatus == tick' = FALSE /\ status' = <<>>

NoLog == log' = <<>>

\* what no call of acquire or release changes
SameProcess == UNCHANGED <<now, registered, destroyed>>

\* object o has the property k (reading a property an object does not have
\* gives undefined)
Has(o, k) == k \in DOMAIN o

\* `slowPool.log && elapsedTime > slowPool.elapsedThreshold`: undefined is
\* falsy, and a number is not greater than undefined
\* faulty variant: an acquire that took exactly the threshold is logged
IsSlowAtThreshold(opts, elapsed) ==
    /\ Has(opts.slowPool, "log") /\ opts.slowPool.log
    /\ Has(opts.slowPool, "elapsedThreshold")
    /\ elapsed >= opts.slowPool.elapsedThreshold

IsSlow(opts, elapsed) ==
    /\ Has(opts.slowPool, "log") /\ opts.slowPool.log
    /\ Has(opts.slowPool, "elapsedThreshold")
    /\ elapsed > opts.slowPool.elapsedThreshold

\* the records logged by the acquire calls that one run resumes: `order`
\* lists the callers in the order the pool serves them, ca and ca2 are the
\* callers before and after the run, p2 the pool after it (the continuation
\* of `await pool.acquire()` reads Date.now() and pool.pending after the
\* run's synchronous part)
SlowLog(opts, t, order, ca, ca2, p2) ==
    LET resumed == SelectSeq(order, LAMBDA c :
                       ca[c].pc = "acquiring" /\ ca2[c].pc = "holding")
        slow    == SelectSeq(resumed, LAMBDA c : IsSlow(opts, t - ca[c].start))
    IN  [i \in 1..Len(slow) |->
           [ name    |-> OptName,
             db      |-> ca[slow[i]].db,
             action  |-> "acquire",
             elapsed |-> t - ca[slow[i]].start,
             waiting |-> PoolPending(p2) ]]

(* ------------------------- RedisPool.acquire -------------------------- *)

\* Callers are interchangeable: a new call is made by the first idle one.
FirstIdle(c) ==
    /\ callers[c].pc = "idle"
    /\ \A c2 \in Callers : c2 < c => callers[c2].pc # "idle"

Acquire(c, database) ==
    /\ FirstIdle(c)
    /\ LET key   == PropertyKey(database)
           found == HasPool(pools, database)
           p0    == IF found THEN pools[key] ELSE NewPool(made[key] + 1, database)
           ca0   == [callers EXCEPT ![c].pc = "acquiring", ![c].db = database,
                                    ![c].watched = FALSE, ![c].start = now]
           w     == Dispense([key |-> key,
                              p |-> [p0 EXCEPT !.waiting = Append(@, c)],
                              cl |-> clients[key], ca |-> ca0])
       IN  /\ made' = IF found THEN made ELSE [made EXCEPT ![key] = @ + 1]
           /\ pools' = IF found THEN [pools EXCEPT ![key] = w.p]
                       ELSE Register(pools, database, w.p)
           /\ Commit(w)
           /\ log' = SlowLog(options, now, Append(p0.waiting, c), ca0, w.ca, w.p)
    /\ NoStatus
    /\ SameProcess
    /\ UNCHANGED options

\* the create promise of resource r resolved (clients of its key: cl): the
\* pool registers the value and dispenses, unless the pool that asked for
\* it is no longer the registered one
Settle(cl, r) ==
    IF OwnerRegistered(r)
    THEN LET w == Dispense(AddResource([key |-> r[1], p |-> pools[r[1]],
                                        cl |-> cl, ca |-> callers], r[2]))
         IN  /\ pools' = [pools EXCEPT ![r[1]] = w.p]
             /\ Commit(w)
             /\ log' = SlowLog(options, now, pools[r[1]].waiting, callers,
                               w.ca, w.p)
    ELSE /\ clients' = [clients EXCEPT ![r[1]] = cl]
         /\ NoLog
         /\ UNCHANGED <<pools, callers>>

(* --------------------------- factory.create --------------------------- *)

\* client.on('ready'): the handler issues client.select(database, ...)
ClientReady(r) ==
    /\ ~Client(r).ended
    /\ Client(r).phase = "connecting"
    /\ clients' = [clients EXCEPT ![r[1]][r[2]].connected = TRUE,
                                  ![r[1]][r[2]].phase = "selecting"]
    /\ NoStatus
    /\ NoLog
    /\ SameProcess
    /\ UNCHANGED <<options, pools, made, callers>>

\* `if (!settled)` in the handlers of factory.create
\* faulty variant: the handlers do not look at the flag
SettledNever(c) == FALSE

Settled(c) == c.settled

\* resolve(v) of the create promise: a promise keeps the value of the first
\* call
Resolve(c, v) ==
    [c EXCEPT !.resolveCalls = @ + 1,
              !.resolved = IF c.resolveCalls = 0 THEN v ELSE @]

\* the callback given to client.select, on client c
OnSelect(c, err) ==
    IF ~Settled(c)
    THEN Resolve([c EXCEPT !.settled = TRUE], IF err THEN "err" ELSE "client")
    ELSE c

\* the handler of the client's error event, on client c: it sets err.name,
\* err.db and err.action on the error it was given (c.tagged: the value the
\* create promise resolved with carries them) and logs it; client.end(true)
\* calls back the commands still unanswered (the select, if it is) with an
\* error before resolve(err) is reached
OnError(c) ==
    IF ~Settled(c)
    THEN LET c1 == [c EXCEPT !.settled = TRUE]
             c2 == IF c.phase = "selecting" THEN OnSelect(c1, TRUE) ELSE c1
             c3 == Resolve([c2 EXCEPT !.ended = TRUE, !.connected = FALSE,
                                      !.phase = "ended"], "err")
         IN  [c3 EXCEPT !.tagged = TRUE]
    ELSE c

\* this run made the create promise of c settle (c1: the client after it)
Completes(c, c1) == c.resolveCalls = 0 /\ c1.resolveCalls > 0

\* the callback of client.select(database, err => ...)
SelectReply(r, err) ==
    /\ Client(r).phase = "selecting"
    /\ LET c  == Client(r)
           c1 == [OnSelect(c, err) EXCEPT
                     !.phase = "open",
                     !.selected = IF err THEN "" ELSE SelectedDb(c.database)]
       IN  IF Completes(c, c1)
           THEN Settle([clients[r[1]] EXCEPT ![r[2]] = c1], r)
           ELSE /\ clients' = [clients EXCEPT ![r[1]][r[2]] = c1]
                /\ NoLog
                /\ UNCHANGED <<pools, callers>>
    /\ NoStatus
    /\ SameProcess
    /\ UNCHANGED <<options, made>>

\* client.on('error'): before the creation settled the handler ends the
\* client and resolves the create promise with the error; afterwards the
\* error is only logged
ClientError(r) ==
    /\ ~Client(r).ended
    /\ LET c  == Client(r)
           c1 == OnError(c)
       IN  IF Completes(c, c1)
           THEN Settle([clients[r[1]] EXCEPT ![r[2]] = c1], r)
           ELSE /\ clients' = [clients EXCEPT ![r[1]][r[2]] = c1]
                /\ NoLog
                /\ UNCHANGED <<pools, callers>>
    /\ NoStatus
    /\ SameProcess
    /\ UNCHANGED <<options, made>>

(* ------------------------- RedisPool.release -------------------------- *)

\* `if (this.options.unwatchOnRelease)`
\* faulty variant: release never sends UNWATCH
UnwatchNever(opts) == FALSE

UnwatchOnRelease(opts) == opts.unwatchOnRelease

\* a command written to connection i of cl; the server answers a
\* connection's commands in the order they were sent.  Two UNWATCH in a row
\* leave the server as one does, and are kept as one.
Send(cl, i, cmd) ==
    IF cmd = "UNWATCH" /\ cl[i].q # <<>> /\ cl[i].q[Len(cl[i].q)] = "UNWATCH"
    THEN cl
    ELSE [cl EXCEPT ![i].q = Append(@, cmd)]

\* `resource.UNWATCH()` throws synchronously only when the resource has no
\* such method: an Error object (what a failed creation resolved with).  On
\* a client the command is written, or queued while the client is offline,
\* and its outcome arrives later.
\* faulty variant: UNWATCH also throws on a client that is not connected
UnwatchThrowsOffline(opts, c) ==
    UnwatchOnRelease(opts) /\ (c.resolved = "err" \/ ~c.connected)

UnwatchThrows(opts, c) == UnwatchOnRelease(opts) /\ c.resolved = "err"

\* release(database, resource) by a caller whose position is `from` and
\* which is left as `after` when release returns.
\* When resource.UNWATCH() throws, release rejects before it reaches the
\* pool: the caller is left with nothing to do with the value.  A release
\* that did not reach the resource's pool leaves the caller as it was.
ReleaseBy(c, database, from, after) ==
    /\ callers[c].pc = from
    /\ LET r      == callers[c].res
           key    == PropertyKey(database)
           unw    == UnwatchOnRelease(options)
           throws == UnwatchThrows(options, Client(r))
           cl1    == IF unw /\ ~throws
                     THEN [clients EXCEPT ![r[1]] = Send(@, r[2], "UNWATCH")]
                     ELSE clients
           gone   == [callers EXCEPT ![c] = after]
       IN  CASE throws ->
                  /\ callers' = gone
                  /\ NoLog
                  /\ UNCHANGED <<pools, clients>>
             [] ~throws /\ HasPool(pools, database) /\ r[1] = key
                        /\ r[2] \in pools[key].loans ->
                  LET w == Dispense(ReturnResource(
                               [key |-> key, p |-> pools[key],
                                cl |-> cl1[key], ca |-> gone], r[2]))
                  IN  /\ pools' = [pools EXCEPT ![key] = w.p]
                      /\ Commit(w)
                      /\ log' = SlowLog(options, now, pools[key].waiting,
                                        callers, w.ca, w.p)
             [] OTHER ->
                  /\ clients' = cl1
                  /\ NoLog
                  /\ UNCHANGED <<pools, callers>>
    /\ NoStatus
    /\ SameProcess
    /\ UNCHANGED <<options, made>>

\* faulty variant: the resource is never given back to its pool
ReleaseForgetsPool(c, database) ==
    /\ callers[c].pc = "holding"
    /\ callers' = [callers EXCEPT ![c] = IdleCaller]
    /\ NoStatus
    /\ NoLog
    /\ SameProcess
    /\ UNCHANGED <<options, pools, made, clients>>

\* release(database, resource) by the caller holding `resource`, which
\* drops its reference
Release(c, database) == ReleaseBy(c, database, "holding", IdleCaller)

(* ------------------ the borrower and the redis server ----------------- *)

\* client.WATCH('k') by the borrower
Watch(c) ==
    /\ callers[c].pc = "holding"
    /\ ~callers[c].watched
    /\ LET r == callers[c].res
       IN  /\ Client(r).resolved = "client"
           /\ Len(Client(r).q) <= MaxCmds
           /\ clients' = [clients EXCEPT ![r[1]] = Send(@, r[2], "WATCH")]
    /\ callers' = [callers EXCEPT ![c].watched = TRUE]
    /\ NoStatus
    /\ NoLog
    /\ SameProcess
    /\ UNCHANGED <<options, pools, made>>

\* client.MULTI() ... tx.exec() by the borrower ("EXECW": by a borrower
\* that set a watch of its own)
Exec(c) ==
    /\ callers[c].pc = "holding"
    /\ LET r == callers[c].res
       IN  /\ Client(r).resolved = "client"
           /\ Len(Client(r).q) <= MaxCmds
           /\ clients' = [clients EXCEPT ![r[1]] =
                  Send(@, r[2], IF callers[c].watched THEN "EXECW" ELSE "EXEC")]
    /\ NoStatus
    /\ NoLog
    /\ SameProcess
    /\ UNCHANGED <<options, pools, made, callers>>

\* the server answers the oldest command of connection r: WATCH sets the
\* connection's watch, UNWATCH and EXEC clear it
ServerReply(r) ==
    /\ Client(r).connected
    /\ Client(r).q # <<>>
    /\ LET c == Client(r)
       IN  clients' = [clients EXCEPT ![r[1]][r[2]] =
             [c EXCEPT
                !.q = Tail(c.q),
                !.ws = IF Head(c.q) = "WATCH"
                       THEN (IF c.ws = "dirty" THEN "dirty" ELSE "watching")
                       ELSE "none"]]
    /\ NoStatus
    /\ NoLog
    /\ SameProcess
    /\ UNCHANGED <<options, pools, made, callers>>

\* some connection writes the watched key: client2.set('k', 1)
WriteKey ==
    /\ \E r \in Created : Client(r).ws = "watching"
    /\ clients' = [k \in Keys |-> [i \in 1..Len(clients[k]) |->
                     IF clients[k][i].ws = "watching"
                     THEN [clients[k][i] EXCEPT !.ws = "dirty"]
                     ELSE clients[k][i]]]
    /\ NoStatus
    /\ NoLog
    /\ SameProcess
    /\ UNCHANGED <<options, pools, made, callers>>

(* ----------------------- RedisPool._emitStatus ------------------------ *)

\* the events one run of the setInterval callback emits
\* faulty variant: the callback emits nothing
EmitStatusNone(ps) == <<>>

\* faulty variant: count reports the idle connections only
EmitStatusIdle(ps) ==
    LET keys == SelectSeq(KeyOrder, LAMBDA k : k \in DOMAIN ps)
    IN  [i \in 1..Len(keys) |->
           [ name    |-> OptName,
             db      |-> Str(keys[i]),
             count   |-> PoolAvailable(ps[keys[i]]),
             unused  |-> PoolAvailable(ps[keys[i]]),
             waiting |-> PoolPending(ps[keys[i]]) ]]

EmitStatus(ps) ==
    LET keys == SelectSeq(KeyOrder, LAMBDA k : k \in DOMAIN ps)
    IN  [i \in 1..Len(keys) |->
           [ name    |-> OptName,
             db      |-> Str(keys[i]),
             count   |-> PoolSize(ps[keys[i]]),
             unused  |-> PoolAvailable(ps[keys[i]]),
             waiting |-> PoolPending(ps[keys[i]]) ]]

Tick ==
    /\ tick' = TRUE
    /\ status' = EmitStatus(pools)
    /\ NoLog
    /\ SameProcess
    /\ UNCHANGED <<options, pools, made, clients, callers>>

(* ------------------------------ Next ---------------------------------- *)

\* the pool manager, the clients it creates and the server's replies
Manager ==
    \/ \E c \in Callers, d \in Databases : Acquire(c, d)
    \/ \E c \in Callers, d \in Databases : Release(c, d)
    \/ \E r \in Created : ClientReady(r)
    \/ \E r \in Created, err \in BOOLEAN : SelectReply(r, err)
    \/ \E r \in Created : ClientError(r)
    \/ \E r \in Created : ServerReply(r)

Next ==
    \/ Manager
    \/ Tick

Spec == Init /\ [][Next]_vars

\* The borrowers of one database with their own commands, and the other
\* writers of the server (the pools of other databases share nothing with
\* this one but the server's keys)
WatchDatabases == {Num(0)}

WatchNext ==
    \/ \E c \in Callers, d \in WatchDatabases : Acquire(c, d)
    \/ \E c \in Callers, d \in WatchDatabases : Release(c, d)
    \/ \E r \in Created : ClientReady(r)
    \/ \E r \in Created, err \in BOOLEAN : SelectReply(r, err)
    \/ \E r \in Created : ClientError(r)
    \/ \E r \in Created : ServerReply(r)
    \/ \E c \in Callers : Watch(c)
    \/ \E c \in Callers : Exec(c)
    \/ WriteKey

WatchSpec == Init /\ [][WatchNext]_vars

\* setInterval keeps calling its callback: the timer is never cleared
LiveSpec == Spec /\ WF_vars(Tick)

(* ------------------------------ time ---------------------------------- *)

\* a manager constructed with slowPool and acquireTimeoutMillis given
SlowInit ==
    \E u, l \in BOOLEAN :
        Construct(Options(u, [log |-> l, elapsedThreshold |-> OptElapsedThreshold],
                          OptAcquireTimeout, {}), {})

\* a millisecond passes between two runs
Advance ==
    /\ now < MaxTime
    /\ now' = now + 1
    /\ NoStatus
    /\ NoLog
    /\ UNCHANGED <<options, pools, made, clients, callers, registered, destroyed>>

SlowDatabases == {Num(0)}

SlowNext ==
    \/ \E c \in Callers, d \in SlowDatabases : Acquire(c, d)
    \/ \E c \in Callers, d \in SlowDatabases : Release(c, d)
    \/ \E r \in Created : ClientReady(r)
    \/ \E r \in Created, err \in BOOLEAN : SelectReply(r, err)
    \/ \E r \in Created : ClientError(r)
    \/ \E r \in Created : ServerReply(r)
    \/ Advance

SlowSpec == SlowInit /\ [][SlowNext]_vars

\* DEFAULTS, as far as the model reads them
Defaults == Options(TRUE, QuietSlowPool, 0, {})

\* Object.assign({}, defaults, given): every own property of `given`
\* replaces the property of that name whole, nested objects included
ObjectAssign(defaults, given) ==
    [k \in DOMAIN defaults \cup DOMAIN given |->
        IF k \in DOMAIN given THEN given[k] ELSE defaults[k]]

\* a manager constructed with a slowPool object that gives log, the
\* threshold, or both
MergeInit ==
    \/ Construct(ObjectAssign(Defaults, [slowPool |-> [log |-> TRUE]]), {})
    \/ Construct(ObjectAssign(Defaults,
            [slowPool |-> [elapsedThreshold |-> OptElapsedThreshold - 1]]), {})
    \/ Construct(ObjectAssign(Defaults,
            [slowPool |-> [log |-> TRUE,
                           elapsedThreshold |-> OptElapsedThreshold - 1]]), {})

MergeSpec == MergeInit /\ [][SlowNext]_vars

(* ------------------------- custom commands ---------------------------- *)

\* a manager constructed with a commands list, after other managers of the
\* same process
CommandInit ==
    \E u \in BOOLEAN, cmds \in SUBSET Commands, before \in SUBSET Commands :
        Construct(Options(u, QuietSlowPool, 0, cmds), before)

\* new RedisPool({commands: cmds}) elsewhere in the process: its constructor
\* runs _addCommands (its pools are its own and are not followed here)
OtherManager(cmds) ==
    /\ ~(cmds \subseteq registered)
    /\ registered' = AddCommands(registered, [commands |-> cmds])
    /\ NoStatus
    /\ NoLog
    /\ UNCHANGED <<options, pools, made, clients, callers, now, destroyed>>

\* client[name] on a redis client: the method is found on the prototype
HasCommand(name) == name \in registered

CommandDatabases == {Num(0)}

CommandNext ==
    \/ \E c \in Callers, d \in CommandDatabases : Acquire(c, d)
    \/ \E c \in Callers, d \in CommandDatabases : Release(c, d)
    \/ \E r \in Created : ClientReady(r)
    \/ \E r \in Created, err \in BOOLEAN : SelectReply(r, err)
    \/ \E r \in Created : ClientError(r)
    \/ \E r \in Created : ServerReply(r)
    \/ \E cmds \in SUBSET Commands : OtherManager(cmds)

CommandSpec == CommandInit /\ [][CommandNext]_vars

(* ------------------------------ shutdown ------------------------------ *)

\* redisPool.destroy(): neither RedisPool nor EventEmitter defines such a
\* method, so the call throws a TypeError and changes nothing; the handle
\* of the status timer was not kept, so no caller can clear the timer
\* either
Destroy ==
    /\ ~destroyed
    /\ destroyed' = TRUE
    /\ NoStatus
    /\ NoLog
    /\ UNCHANGED <<options, pools, made, clients, callers, now, registered>>

ShutdownNext ==
    \/ Manager
    \/ Tick
    \/ Destroy

\* the timer keeps firing, as in LiveSpec
ShutdownSpec == Init /\ [][ShutdownNext]_vars /\ WF_vars(Tick)

(* ------------------------- connection failures ------------------------ *)

\* the transport of an established client closes: the library sets
\* client.connected = false, fails the commands sent and not yet answered
\* and starts reconnecting.  A failed command that has no callback (the
\* UNWATCH of release has none) is emitted as an 'error' event, which the
\* handler of a settled creation only logs.
ConnectionLost(r) ==
    /\ ~Client(r).ended
    /\ Client(r).phase = "open"
    /\ Client(r).connected
    /\ clients' = [clients EXCEPT ![r[1]][r[2]].connected = FALSE,
                                  ![r[1]][r[2]].ws = "none",
                                  ![r[1]][r[2]].q = <<>>]
    /\ NoStatus
    /\ NoLog
    /\ SameProcess
    /\ UNCHANGED <<options, pools, made, callers>>

\* the library reconnected: client.on('ready') runs again and issues
\* client.select(database, ...) again
Reconnected(r) ==
    /\ ~Client(r).ended
    /\ Client(r).phase = "open"
    /\ ~Client(r).connected
    /\ clients' = [clients EXCEPT ![r[1]][r[2]].connected = TRUE,
                                  ![r[1]][r[2]].phase = "selecting"]
    /\ NoStatus
    /\ NoLog
    /\ SameProcess
    /\ UNCHANGED <<options, pools, made, callers>>

\* the server answers the UNWATCH of a release with an error reply: the
\* command has no callback, so the client emits 'error'; the handler of the
\* settled creation logs it (`if (!settled)` is false) and nothing else
UnwatchFails(r) ==
    /\ Client(r).settled
    /\ Client(r).connected
    /\ Client(r).q # <<>>
    /\ Head(Client(r).q) = "UNWATCH"
    /\ clients' = [clients EXCEPT ![r[1]][r[2]].q = Tail(@)]
    /\ NoStatus
    /\ NoLog
    /\ SameProcess
    /\ UNCHANGED <<options, pools, made, callers>>

\* factory.validate(client): `client && client.connected` (an Error object
\* has no connected property)
Validate(c) == c.resolved = "client" /\ c.connected

FailDatabases == {Num(0)}

FailNext ==
    \/ \E c \in Callers, d \in FailDatabases : Acquire(c, d)
    \/ \E c \in Callers, d \in FailDatabases : Release(c, d)
    \/ \E r \in Created : ClientReady(r)
    \/ \E r \in Created, err \in BOOLEAN : SelectReply(r, err)
    \/ \E r \in Created : ClientError(r)
    \/ \E r \in Created : ServerReply(r)
    \/ \E r \in Created : ConnectionLost(r)
    \/ \E r \in Created : Reconnected(r)
    \/ \E r \in Created : UnwatchFails(r)

FailSpec == Init /\ [][FailNext]_vars

(* --------------------------- factory.destroy -------------------------- *)

\* pool.destroy(resource) on the pool of the connection caller c holds: the
\* pool forgets the resource, calls factory.destroy(client), which issues
\* client.quit(callback), and dispenses
FactoryDestroy(c) ==
    /\ callers[c].pc = "holding"
    /\ LET r == callers[c].res
       IN  /\ Client(r).resolved = "client"
           /\ Client(r).destroy = "none"
           /\ ~Client(r).ended
           /\ Cardinality({i \in 1..Len(clients[r[1]]) :
                              clients[r[1]][i].destroy # "none"}) < MaxDestroys
           /\ OwnerRegistered(r)
           /\ r[2] \in pools[r[1]].loans
           /\ LET p1 == [pools[r[1]] EXCEPT !.loans = @ \ {r[2]},
                                            !.all = @ \ {r[2]}]
                  cl == [clients[r[1]] EXCEPT ![r[2]].destroy = "quitting"]
                  w  == Dispense([key |-> r[1], p |-> p1, cl |-> cl,
                                  ca |-> [callers EXCEPT ![c] = IdleCaller]])
              IN  /\ pools' = [pools EXCEPT ![r[1]] = w.p]
                  /\ Commit(w)
                  /\ log' = SlowLog(options, now, p1.waiting, callers, w.ca, w.p)
    /\ NoStatus
    /\ SameProcess
    /\ UNCHANGED <<options, made>>

\* the callback of client.quit: client.end(true), then reject(err) or
\* resolve()
QuitReply(r, err) ==
    /\ Client(r).destroy = "quitting"
    /\ clients' = [clients EXCEPT ![r[1]][r[2]] =
           [@ EXCEPT !.destroy = IF err THEN "rejected" ELSE "resolved",
                     !.ended = TRUE, !.connected = FALSE, !.phase = "ended",
                     !.q = <<>>, !.ws = "none"]]
    /\ NoStatus
    /\ NoLog
    /\ SameProcess
    /\ UNCHANGED <<options, pools, made, callers>>

\* the server never answers the QUIT (it hangs, or the network swallows the
\* reply): the callback of client.quit is never called, and factory.destroy
\* has no timer of its own
QuitHangs(r) ==
    /\ Client(r).destroy = "quitting"
    /\ clients' = [clients EXCEPT ![r[1]][r[2]].destroy = "hung"]
    /\ NoStatus
    /\ NoLog
    /\ SameProcess
    /\ UNCHANGED <<options, pools, made, callers>>

DestroyDatabases == {Num(0)}

DestroyNext ==
    \/ \E c \in Callers, d \in DestroyDatabases : Acquire(c, d)
    \/ \E c \in Callers, d \in DestroyDatabases : Release(c, d)
    \/ \E r \in Created : ClientReady(r)
    \/ \E r \in Created, err \in BOOLEAN : SelectReply(r, err)
    \/ \E r \in Created : ClientError(r)
    \/ \E r \in Created : ServerReply(r)
    \/ \E c \in Callers : FactoryDestroy(c)
    \/ \E r \in Created, err \in BOOLEAN : QuitReply(r, err)
    \/ \E r \in Created : QuitHangs(r)

DestroySpec == Init /\ [][DestroyNext]_vars

(* --------------------------- fair borrowers --------------------------- *)

\* a borrower gives the connection back to the database it acquired it from
ReleaseOwn(c) == Release(c, callers[c].db)

\* the manager when every creation succeeds: the client connects and its
\* select is answered without error
FairNext ==
    \/ \E c \in Callers, d \in Databases : Acquire(c, d)
    \/ \E c \in Callers : ReleaseOwn(c)
    \/ \E r \in Created : ClientReady(r)
    \/ \E r \in Created : SelectReply(r, FALSE)
    \/ \E r \in Created : ServerReply(r)

\* every borrower eventually releases, every connection attempt and every
\* select is eventually answered
FairSpec ==
    /\ Init
    /\ [][FairNext]_vars
    /\ \A c \in Callers : WF_vars(ReleaseOwn(c))
    /\ WF_vars(\E r \in Created : ClientReady(r))
    /\ WF_vars(\E r \in Created : SelectReply(r, FALSE))

(* --------------------------- double release -------------------------- *)

\* release(database, resource) by a caller that keeps its reference to the
\* resource afterwards
ReleaseKeeping(c, database) ==
    ReleaseBy(c, database, "holding", [callers[c] EXCEPT !.pc = "released"])

\* release(database, resource) once more, with the reference kept from an
\* earlier release
ReleaseAgain(c, database) == ReleaseBy(c, database, "released", IdleCaller)

\* the caller drops the reference it kept
Forget(c) ==
    /\ callers[c].pc = "released"
    /\ callers' = [callers EXCEPT ![c] = IdleCaller]
    /\ NoStatus
    /\ NoLog
    /\ SameProcess
    /\ UNCHANGED <<options, pools, made, clients>>

DoubleDatabases == {Num(0)}

DoubleNext ==
    \/ \E c \in Callers, d \in DoubleDatabases : Acquire(c, d)
    \/ \E c \in Callers, d \in DoubleDatabases : ReleaseKeeping(c, d)
    \/ \E c \in Callers, d \in DoubleDatabases : ReleaseAgain(c, d)
    \/ \E c \in Callers : Forget(c)
    \/ \E r \in Created : ClientReady(r)
    \/ \E r \in Created, err \in BOOLEAN : SelectReply(r, err)
    \/ \E r \in Created : ClientError(r)
    \/ \E r \in Created : ServerReply(r)

DoubleSpec == Init /\ [][DoubleNext]_vars

(* ------------------------------ claims -------------------------------- *)

Holders(r) == {c \in Callers : callers[c].pc = "holding" /\ callers[c].res = r}

\* what acquire gave caller c is a redis client (not the Error of a failed
\* creation)
HoldsClient(c) ==
    /\ callers[c].pc = "holding"
    /\ Client(callers[c].res).resolved = "client"

\* JavaScript's == between database names (a number equals its string form)
LooseEquals(a, b) == PropertyKey(a) = PropertyKey(b)

\* C1: every connection acquire(D) returned was created by the factory of
\* D's pool, select(D) succeeded on it, and it is no connection created for
\* another database.
C1_BoundToRequestedDatabase ==
    \A c \in Callers : HoldsClient(c) =>
        LET r == callers[c].res
            D == callers[c].db
        IN  /\ r[1] = PropertyKey(D)
            /\ HasPool(pools, D)
            /\ Client(r).pool = pools[PropertyKey(D)].id
            /\ LooseEquals(Client(r).database, D)
            /\ Client(r).selected = PropertyKey(D)

\* C1 witness: connections of two databases are on loan at once, one of them
\* asked for by number
C1_Witness ==
    \E c1, c2 \in Callers :
        /\ HoldsClient(c1) /\ callers[c1].db = Num(0)
        /\ HoldsClient(c2) /\ callers[c2].db = Str("2")

\* the clients created for key k whose transport has not been ended
LiveClients(k) == {i \in 1..Len(clients[k]) : ~clients[k][i].ended}

\* C2: for every database, on loan + idle + being created never exceeds
\* options.max, no more than options.max connections of the database are
\* open, and a caller that is waiting finds the pool at max.
C2_AtMostMax ==
    \A k \in Keys :
        /\ Cardinality(LiveClients(k)) <= OptMax
        /\ k \in DOMAIN pools =>
              /\ Cardinality(pools[k].loans) + Len(pools[k].available)
                   + Cardinality(pools[k].creating) <= OptMax
              /\ pools[k].waiting # <<>> =>
                    \/ pools[k].creating # {}
                    \/ Cardinality(pools[k].loans) = OptMax

\* C2 witness: every connection of a pool is on loan to a caller and another
\* caller waits
C2_Witness ==
    \E k \in DOMAIN pools :
        /\ Cardinality(pools[k].loans) = OptMax
        /\ pools[k].creating = {}
        /\ \A i \in pools[k].loans : Holders(<<k, i>>) # {}
        /\ pools[k].waiting # <<>>

\* C3: however many callers acquire a database that has no pool yet, makePool
\* runs once for it, the pool is registered, and every caller waits in or
\* holds a connection of that one pool.
C3_OnePoolPerDatabase ==
    /\ \A k \in Keys : made[k] <= 1 /\ (made[k] = 1 <=> k \in DOMAIN pools)
    /\ \A c \in Callers :
          LET k == PropertyKey(callers[c].db)
          IN  /\ callers[c].pc = "acquiring" =>
                    /\ k \in DOMAIN pools
                    /\ \E j \in 1..Len(pools[k].waiting) : pools[k].waiting[j] = c
              /\ callers[c].pc = "holding" =>
                    /\ k \in DOMAIN pools
                    /\ Client(callers[c].res).pool = pools[k].id

\* C3 witness: two callers acquired the same database before it had any
\* connection
C3_Witness ==
    \E k \in DOMAIN pools :
        /\ Len(pools[k].waiting) >= 2
        /\ pools[k].all = {}
        /\ made[k] = 1

\* C4: no two callers hold the same connection at the same time.
C4_OneBorrower ==
    \A c1, c2 \in Callers :
        (c1 # c2 /\ callers[c1].pc = "holding" /\ callers[c2].pc = "holding")
            => callers[c1].res # callers[c2].res

\* C4 witness: a connection is on loan while another caller asks the same
\* pool, which has no other connection
C4_Witness ==
    \E c1, c2 \in Callers :
        /\ HoldsClient(c1)
        /\ callers[c2].pc = "acquiring"
        /\ PropertyKey(callers[c2].db) = callers[c1].res[1]
        /\ pools[callers[c1].res[1]].all = {callers[c1].res[2]}

\* C5: with unwatchOnRelease, when the server reaches the transaction of a
\* borrower that set no watch of its own, the connection carries no watch
\* (left by an earlier borrower), so no write to a watched key aborts it.
C5_NoStaleWatch ==
    options.unwatchOnRelease =>
        \A r \in Created :
            (Client(r).q # <<>> /\ Head(Client(r).q) = "EXEC")
                => Client(r).ws = "none"

\* C5 witness: the key an earlier borrower watched was written, the
\* connection was released, and the next borrower's transaction is queued
\* behind the UNWATCH
C5_Witness ==
    /\ options.unwatchOnRelease
    /\ \E r \in Created :
          /\ Client(r).ws = "dirty"
          /\ Client(r).q = <<"UNWATCH", "EXEC">>
          /\ \E c \in Holders(r) : ~callers[c].watched

\* C6: acquire completes only with a live connection; a failed creation
\* makes the acquire fail.
C6_AcquireGivesConnection ==
    \A c \in Callers : callers[c].pc = "holding" =>
        /\ Client(callers[c].res).resolved = "client"
        /\ ~Client(callers[c].res).ended

\* C7: a failed creation keeps no slot of the pool once the caller has
\* released what acquire gave it.
C7_FailedCreationFreesSlot ==
    \A k \in DOMAIN pools : \A i \in pools[k].all :
        clients[k][i].resolved = "err" => Holders(<<k, i>>) # {}

\* C8: release for a database without a pool is a no-op: no command is
\* issued on the connection, no pool changes and none is created.
C8_ReleaseWithoutPoolIsNoOp ==
    [][\A c \in Callers, d \in Databases :
          (Release(c, d) /\ ~HasPool(pools, d))
              => UNCHANGED <<pools, made, clients>>]_vars

\* C9: a tick emits exactly one status event per registered pool and none
\* for a database never acquired, with the pool's name, the database (equal
\* to the id acquired), and the pool's size, idle and waiting counts.
C9_StatusPerPool ==
    tick =>
        /\ Len(status) = Cardinality(DOMAIN pools)
        /\ \A i, j \in 1..Len(status) :
              i # j => status[i].db # status[j].db
        /\ \A i \in 1..Len(status) :
              LET e == status[i]
                  k == PropertyKey(e.db)
              IN  /\ k \in DOMAIN pools
                  /\ made[k] >= 1
                  /\ LooseEquals(e.db, pools[k].database)
                  /\ e.name = OptName
                  /\ e.count = Len(clients[k])
                  /\ e.count = Cardinality(pools[k].all)
                                 + Cardinality(pools[k].creating)
                  /\ e.unused = Len(pools[k].available)
                  /\ e.waiting = Cardinality({c \in Callers :
                         /\ callers[c].pc = "acquiring"
                         /\ PropertyKey(callers[c].db) = k})

\* C9 witness: a tick with two pools registered, one of them with a waiting
\* caller and a connection on loan
C9_Witness ==
    /\ tick
    /\ Len(status) = 2
    /\ \E i \in 1..Len(status) :
          /\ status[i].waiting >= 1
          /\ status[i].count >= 1
          /\ status[i].unused = 0

OnLoan(D) == \E c \in Callers : HoldsClient(c) /\ callers[c].db = D

StatusSeen(D) ==
    /\ tick
    /\ \E i \in 1..Len(status) :
          LooseEquals(status[i].db, D) /\ status[i].count >= 1

\* C10: while a connection acquired for database D is on loan, a status
\* event with db == D and count >= 1 is eventually emitted (the timer keeps
\* firing).
C10_StatusEventually ==
    \A D \in Databases : OnLoan(D) ~> (StatusSeen(D) \/ ~OnLoan(D))

\* C10 witness: the status event of database 0 while its connection is on loan
C10_Witness == OnLoan(Num(0)) /\ StatusSeen(Num(0))

\* C11: a step in which acquire calls return logs exactly one record
\* {name, db, action "acquire", elapsed, waiting} for each of them whose
\* elapsed time exceeds slowPool.elapsedThreshold while slowPool.log is on,
\* and nothing else: none for an acquire at or below the threshold, none
\* with slowPool.log off.
C11_SlowAcquireLogged ==
    [][LET returned == {c \in Callers : /\ callers[c].pc # "holding"
                                        /\ callers'[c].pc = "holding"}
           elapsed(c) == IF callers[c].pc = "acquiring"
                         THEN now - callers[c].start ELSE 0
           slow == {c \in returned :
                       /\ options.slowPool.log
                       /\ elapsed(c) > options.slowPool.elapsedThreshold}
           record(c) == [ name    |-> OptName,
                          db      |-> callers'[c].db,
                          action  |-> "acquire",
                          elapsed |-> elapsed(c),
                          waiting |-> Cardinality({c2 \in Callers :
                              /\ callers'[c2].pc = "acquiring"
                              /\ PropertyKey(callers'[c2].db)
                                   = PropertyKey(callers'[c].db)}) ]
       IN  /\ Len(log') = Cardinality(slow)
           /\ \A c \in slow : \E i \in 1..Len(log') : log'[i] = record(c)
           /\ \A i \in 1..Len(log') : \E c \in slow : log'[i] = record(c)]_vars

\* C11 witness: an acquire that waited longer than the threshold has just
\* returned and its record was logged
C11_Witness ==
    /\ options.slowPool.log
    /\ Len(log) = 1
    /\ log[1].elapsed > options.slowPool.elapsedThreshold
    /\ \E c \in Callers : callers[c].pc = "holding" /\ callers[c].db = log[1].db

\* C12: no acquire is still waiting once it has waited longer than the
\* acquireTimeoutMillis the manager was constructed with.
C12_AcquireTimesOut ==
    \A c \in Callers :
        callers[c].pc = "acquiring"
            => now - callers[c].start <= options.acquireTimeoutMillis

\* C13: a custom command is a method of an acquired connection exactly if
\* it is in the commands list the manager was constructed with.
C13_OwnCommandsOnly ==
    \A c \in Callers : HoldsClient(c) =>
        \A name \in Commands : HasCommand(name) <=> name \in options.commands

\* C14: once destroy has been called on the manager, it emits no status
\* event any more.
C14_NoStatusAfterDestroy ==
    [][destroyed => status' = <<>>]_vars

\* resource r is in the idle list of its pool
IsIdle(r) ==
    /\ r[1] \in DOMAIN pools
    /\ \E j \in 1..Len(pools[r[1]].available) : pools[r[1]].available[j] = r[2]

\* C15: an acquire is never given an idle connection that fails validate
\* (its transport is not connected).
C15_DisconnectedNotHandedOut ==
    [][\A c \in Callers :
          (callers[c].pc # "holding" /\ callers'[c].pc = "holding")
              => \A r \in Created :
                    (/\ callers'[c].res = r
                     /\ IsIdle(r)
                     /\ Client(r).resolved = "client")
                        => Validate(Client(r))]_vars

\* C16: every step keeps each registered pool registered, as the same pool
\* object; a database gets its pool in the step in which a caller enters
\* acquire for it, and in no other step (not by release, a status tick or a
\* connection failure).
C16_RegistryOnlyGrows ==
    [][LET entered(k) == \E c \in Callers :
                             /\ callers[c].pc = "idle"
                             /\ callers'[c].pc # "idle"
                             /\ PropertyKey(callers'[c].db) = k
       IN  /\ \A k \in DOMAIN pools :
                 k \in DOMAIN pools' /\ pools'[k].id = pools[k].id
           /\ \A k \in Keys :
                 /\ (k \in DOMAIN pools' /\ k \notin DOMAIN pools) => entered(k)
                 /\ entered(k) => k \in DOMAIN pools']_vars

\* C16 witness: both pools registered, after a creation failed, a connection
\* was released, and the status timer has just fired
C16_Witness ==
    /\ DOMAIN pools = Keys
    /\ tick
    /\ \E r \in Created : Client(r).ended
    /\ \E k \in DOMAIN pools : pools[k].available # <<>> /\ pools[k].loans = {}

\* C17: the handlers of a factory.create call resolve its promise once,
\* whatever the order of the client's error events, ready events and select
\* callbacks; an event after that leaves the creation's result, the client
\* and the pool's resources as they are (unless it is the select callback
\* of a reconnection, which only notes the selected database).
C17_CreateCompletesOnce ==
    [][\A k \in Keys : \A i \in 1..Len(clients'[k]) :
          LET c2 == clients'[k][i]
          IN  /\ c2.resolveCalls <= 1
              /\ c2.settled <=> c2.resolveCalls = 1
              /\ (i <= Len(clients[k]) /\ clients[k][i].settled) =>
                    /\ c2.resolved = clients[k][i].resolved
                    /\ c2.ended = clients[k][i].ended
                    /\ c2.settled]_vars

\* C17 witness: the select callback of a reconnection ran on a client whose
\* creation had completed long before, and the client is on loan
C17_Witness ==
    \E r \in Created :
        /\ Client(r).resolveCalls = 1
        /\ Client(r).resolved = "client"
        /\ Client(r).selected = ""
        /\ Client(r).phase = "open"
        /\ Holders(r) # {}

\* C18: whenever a creation has failed (its promise resolved with the
\* error), the client's transport has been closed with client.end.
C18_FailedCreationClosed ==
    \A r \in Created : Client(r).resolved = "err" => Client(r).ended

\* C19: every factory.destroy(client) whose quit succeeded, failed or will
\* never call back has closed the transport with client.end and has
\* completed.
C19_DestroyAlwaysCloses ==
    \A r \in Created :
        Client(r).destroy \in {"resolved", "rejected", "hung"} =>
            /\ Client(r).ended
            /\ Client(r).destroy \in {"resolved", "rejected"}

\* C20: with unwatchOnRelease, no connection is in the idle list of its pool
\* while the UNWATCH that release sent on it is unanswered.
C20_IdleAfterUnwatchAnswered ==
    options.unwatchOnRelease =>
        \A r \in Created :
            IsIdle(r) =>
                \A j \in 1..Len(Client(r).q) : Client(r).q[j] # "UNWATCH"

\* C21: a failure of the reset command of a release is not fatal.  A
\* release, to its own pool, of a connection on loan takes the connection
\* off the caller and gives it back to the pool (idle, or handed to a
\* waiting caller) whatever the state of its transport; and the step in
\* which the UNWATCH of a release fails (an error reply, or the loss of the
\* transport before the answer) changes neither the pool nor any caller.
ResetFails ==
    \E r \in Created :
        \/ UnwatchFails(r)
        \/ ConnectionLost(r) /\ \E n \in 1..Len(Client(r).q) :
                                    Client(r).q[n] = "UNWATCH"

C21_ResetFailureNotFatal ==
    [][/\ \A c \in Callers : \A d \in FailDatabases :
             (/\ HoldsClient(c)
              /\ PropertyKey(d) = callers[c].res[1]
              /\ callers[c].res[2] \in pools[PropertyKey(d)].loans
              /\ Release(c, d))
             => LET r == callers[c].res
                    p == pools[r[1]]
                IN  /\ callers'[c].pc = "idle"
                    /\ PoolSize(pools'[r[1]]) = PoolSize(p)
                    /\ \/ /\ PoolAvailable(pools'[r[1]]) = PoolAvailable(p) + 1
                          /\ Cardinality(pools'[r[1]].loans) =
                                 Cardinality(p.loans) - 1
                       \/ \E c2 \in Callers \ {c} :
                             /\ callers[c2].pc = "acquiring"
                             /\ callers'[c2].pc = "holding"
                             /\ callers'[c2].res = r
       /\ ResetFails => UNCHANGED <<pools, callers>>]_vars

\* a connection released while its transport was down is idle in its pool,
\* its UNWATCH still unsent
C21_Witness ==
    \E r \in Created :
        /\ Client(r).resolved = "client"
        /\ ~Client(r).connected
        /\ Client(r).q = <<"UNWATCH">>
        /\ IsIdle(r)
        /\ \A c \in Callers : callers[c].pc = "idle"

\* C22: the acquires waiting on one pool are served in the order they
\* arrived: a step that gives a connection to a waiting caller B leaves no
\* caller A waiting on the same pool whose acquire was issued at an earlier
\* time than B's.
C22_WaitersServedInOrder ==
    [][\A a, b \in Callers :
          (/\ a # b
           /\ callers[a].pc = "acquiring" /\ callers[b].pc = "acquiring"
           /\ LooseEquals(callers[a].db, callers[b].db)
           /\ callers[a].start < callers[b].start
           /\ callers'[b].pc = "holding")
          => callers'[a].pc # "acquiring"]_vars

\* the caller that arrived first holds the pool's connection while one that
\* arrived later is still waiting for it
C22_Witness ==
    \E a, b \in Callers :
        /\ HoldsClient(a)
        /\ callers[b].pc = "acquiring"
        /\ callers[b].start > 0
        /\ LooseEquals(callers[a].db, callers[b].db)
        /\ PoolPending(pools[callers[a].res[1]]) > 0
        /\ pools[callers[a].res[1]].creating = {}

\* C24: every error a creation ends with carries the pool name, the
\* database and the action: the Error a create promise resolved with, be it
\* from the error event or from a failed select, has name, db and action
\* set.
C24_CreationErrorsTagged ==
    \A r \in Created : Client(r).resolved = "err" => Client(r).tagged

\* C25: releasing a redis client a second time is harmless to the pool: the
\* second release leaves the size, available and pending counts of the pool
\* as they were, no connection is twice in the idle list, and no connection
\* is held by two borrowers.
C25_SecondReleaseHarmless ==
    [][/\ \A c \in Callers : \A d \in DoubleDatabases :
             (/\ callers[c].pc = "released"
              /\ Client(callers[c].res).resolved = "client"
              /\ ReleaseAgain(c, d))
             => \A k \in DOMAIN pools :
                   /\ PoolSize(pools'[k]) = PoolSize(pools[k])
                   /\ PoolAvailable(pools'[k]) = PoolAvailable(pools[k])
                   /\ PoolPending(pools'[k]) = PoolPending(pools[k])
       /\ \A k \in DOMAIN pools' : \A i, j \in 1..Len(pools'[k].available) :
             pools'[k].available[i] = pools'[k].available[j] => i = j
       /\ \A c1, c2 \in Callers :
             (/\ c1 # c2
              /\ callers'[c1].pc = "holding" /\ callers'[c2].pc = "holding"
              /\ Client(callers'[c1].res).resolved = "client")
             => callers'[c1].res # callers'[c2].res]_vars

\* C26: the options given are merged over the defaults, nested objects
\* included: under a manager constructed with slowPool = {log: true} and no
\* elapsedThreshold the default threshold applies, so an acquire that
\* returns after more than the default threshold logs a record.
C26_NestedDefaultsApply ==
    [][\A c \in Callers :
          (/\ Has(options.slowPool, "log") /\ options.slowPool.log
           /\ ~Has(options.slowPool, "elapsedThreshold")
           /\ callers[c].pc = "acquiring"
           /\ callers'[c].pc = "holding"
           /\ now - callers[c].start > Defaults.slowPool.elapsedThreshold)
          => \E i \in 1..Len(log') :
                /\ log'[i].action = "acquire"
                /\ log'[i].db = callers'[c].db
                /\ log'[i].elapsed = now - callers[c].start]_vars

C28_EveryAcquireServed ==
    \A c \in Callers :
        (callers[c].pc = "acquiring") ~> (callers[c].pc = "holding")

\* a connection that was released is on loan again while another acquire
\* waits for it on the same pool
C28_Witness ==
    \E c \in Callers :
        /\ HoldsClient(c)
        /\ \E n \in 1..Len(Client(callers[c].res).q) :
              Client(callers[c].res).q[n] = "UNWATCH"
        /\ \E c2 \in Callers \ {c} :
              /\ callers[c2].pc = "acquiring"
              /\ PropertyKey(callers[c2].db) = callers[c].res[1]
        /\ pools[callers[c].res[1]].creating = {}

\* C29: in every state where a pool has no creation in progress its
\* counters are consistent and work-conserving: size = available + on loan,
\* acquires are pending only when nothing is available and size = max; and
\* when max callers hold a connection of the pool and no other acquire is
\* outstanding, the pool reports size = max, available = 0, pending = 0.
C29_AccountingConsistent ==
    \A k \in DOMAIN pools :
        LET p       == pools[k]
            holding == {c \in Callers : /\ callers[c].pc = "holding"
                                        /\ callers[c].res[1] = k}
            asking  == {c \in Callers : /\ callers[c].pc = "acquiring"
                                        /\ PropertyKey(callers[c].db) = k}
        IN  p.creating = {} =>
              /\ PoolSize(p) = PoolAvailable(p) + Cardinality(p.loans)
              /\ PoolPending(p) > 0 =>
                    PoolAvailable(p) = 0 /\ PoolSize(p) = OptMax
              /\ (Cardinality(holding) = OptMax /\ asking = {}) =>
                    /\ PoolSize(p) = OptMax
                    /\ PoolAvailable(p) = 0
                    /\ PoolPending(p) = 0

\* max callers hold the connections of a pool, nobody waits, and the status
\* event reports count = max, unused = 0, waiting = 0 for it
C29_Witness ==
    /\ tick
    /\ \E i \in 1..Len(status) :
          /\ status[i].count = OptMax
          /\ status[i].unused = 0
          /\ status[i].waiting = 0
          /\ Cardinality({c \in Callers :
                 /\ HoldsClient(c)
                 /\ callers[c].res[1] = PropertyKey(status[i].db)}) = OptMax

====
